---------------------------- MODULE Spec2Model ----------------------------
(***************************************************************************)
(* Manchester code library (src/src/lib.rs): the fixed-capacity Datagram,  *)
(* the Encoder iterator and the sample-driven Decoder state machine.       *)
(*                                                                         *)
(* A Datagram is the pair (length_in_bit, buffer).  The u128 buffer is     *)
(* kept as the set of its set bit positions, so that 127-bit values stay   *)
(* representable; shifting and adding are defined on that set.             *)
(* Option<T> is a sequence: None is << >> and Some(x) is << x >>.          *)
(***************************************************************************)
EXTENDS Integers, Sequences, FiniteSets, TLC

(***************************************************************************)
(* Bounds of the exploration (not program constants).                      *)
(***************************************************************************)
\* longest accumulator the free-running decoder is driven to
MaxBits == 4
\* longest run of equal samples the line driver produces
MaxRun == 10
\* number of runs of equal samples the line driver produces
MaxRuns == 5
\* longest datagram handed to the encoder
MaxLen == 6
\* encoder calls made after the encoder is exhausted
IdleTicks == 4
\* longest freely chosen string handed to Datagram::new
MaxStr == 4
\* number of freely chosen bits handed to add_bit before the bits repeat
MaxFree == 4
\* calls made on a datagram iterator after it is exhausted
MaxExtra == 2
\* longest pause an emitter is configured with
MaxPause == 3
\* longest datagram handed to the emitter
MaxSent == 1

(***************************************************************************)
(* Program constants.                                                      *)
(***************************************************************************)
CAPACITY == 127
U128_BITS == 128
U8_MODULUS == 256
SAMPLES_PER_HALF_BIT_PERIOD == 3
TOLERANCE == 1
LOWER_BARRIER == 2 * SAMPLES_PER_HALF_BIT_PERIOD - TOLERANCE
UPPER_BARRIER == 2 * SAMPLES_PER_HALF_BIT_PERIOD + TOLERANCE
NO_EDGE_EXIT_LIMIT == 3 * SAMPLES_PER_HALF_BIT_PERIOD

BitOrder == {"BigEndian", "LittleEndian"}
ActivityLevel == {"High", "Low"}
SyncOnTurningEdge == {"First", "Second"}

None == << >>
Some(x) == << x >>

(***************************************************************************)
(* Datagram                                                                *)
(***************************************************************************)
\* Datagram::default(): no bits, buffer 0
Datagram_default == [length_in_bit |-> 0, buffer |-> {}]

\* buffer <<= 1 on a u128: every bit moves up, bit 127 is shifted out
Shl1(buffer) == {i + 1 : i \in {j \in buffer : j + 1 < U128_BITS}}

\* buffer += 1 << k on a u128, carries included (a carry out of bit 127 wraps)
RECURSIVE AddPow2(_, _)
AddPow2(buffer, k) ==
    IF k >= U128_BITS THEN buffer
    ELSE IF k \in buffer THEN AddPow2(buffer \ {k}, k + 1)
    ELSE buffer \cup {k}

\* a plausible slip: the capacity test is made against the width of the buffer
add_bit_capacity_128(d, bit, order) ==
    IF d.length_in_bit = U128_BITS
    THEN [ok |-> FALSE, datagram |-> d]
    ELSE [ok |-> TRUE,
          datagram |->
            [length_in_bit |-> d.length_in_bit + 1,
             buffer |->
               IF order = "BigEndian"
               THEN (IF bit THEN AddPow2(Shl1(d.buffer), 0) ELSE Shl1(d.buffer))
               ELSE (IF bit THEN AddPow2(d.buffer, d.length_in_bit) ELSE d.buffer)]]

\* a plausible slip: the two bit orders are taken for each other
add_bit_orders_swapped(d, bit, order) ==
    IF d.length_in_bit = CAPACITY
    THEN [ok |-> FALSE, datagram |-> d]
    ELSE [ok |-> TRUE,
          datagram |->
            [length_in_bit |-> d.length_in_bit + 1,
             buffer |->
               IF order = "LittleEndian"
               THEN (IF bit THEN AddPow2(Shl1(d.buffer), 0) ELSE Shl1(d.buffer))
               ELSE (IF bit THEN AddPow2(d.buffer, d.length_in_bit) ELSE d.buffer)]]

\* Datagram::add_bit: Err when 127 bits are held, else the bit is packed
\* (BigEndian: shift left, new bit at position 0; LittleEndian: new bit at
\* position length) and the length grows by one
add_bit(d, bit, order) ==
    IF d.length_in_bit = CAPACITY
    THEN [ok |-> FALSE, datagram |-> d]
    ELSE [ok |-> TRUE,
          datagram |->
            [length_in_bit |-> d.length_in_bit + 1,
             buffer |->
               IF order = "BigEndian"
               THEN (IF bit THEN AddPow2(Shl1(d.buffer), 0) ELSE Shl1(d.buffer))
               ELSE (IF bit THEN AddPow2(d.buffer, d.length_in_bit) ELSE d.buffer)]]

len(d) == d.length_in_bit

is_empty(d) == 0 = d.length_in_bit

\* Index<u8>::index: the bit under mask 1 << index (the caller keeps
\* index < length_in_bit, the code panics otherwise)
index(d, i) == IF i \in d.buffer THEN 1 ELSE 0

\* a plausible slip: the bytes are added little endian
RECURSIVE Datagram_new_from_little(_, _)
Datagram_new_from_little(r, bit_repr) ==
    IF bit_repr = << >> \/ ~r.ok THEN r
    ELSE LET c == Head(bit_repr)
             r1 == IF c = "0" THEN add_bit(r.datagram, FALSE, "LittleEndian")
                   ELSE IF c = "1" THEN add_bit(r.datagram, TRUE, "LittleEndian")
                   ELSE r
         IN Datagram_new_from_little(r1, Tail(bit_repr))

\* Datagram::new, the loop over the bytes: every '0' / '1' byte is added big
\* endian, others are skipped; ok turns FALSE when add_bit(..).unwrap()
\* panics, and the loop is abandoned
RECURSIVE Datagram_new_from(_, _)
Datagram_new_from(r, bit_repr) ==
    IF bit_repr = << >> \/ ~r.ok THEN r
    ELSE LET c == Head(bit_repr)
             r1 == IF c = "0" THEN add_bit(r.datagram, FALSE, "BigEndian")
                   ELSE IF c = "1" THEN add_bit(r.datagram, TRUE, "BigEndian")
                   ELSE r
         IN Datagram_new_from(r1, Tail(bit_repr))

\* Datagram::new with the outcome of its unwraps: ok is FALSE if it panics
Datagram_new_unwrap(bit_repr) ==
    Datagram_new_from([ok |-> TRUE, datagram |-> Datagram_default], bit_repr)

\* Datagram::new: the datagram it returns
Datagram_new(bit_repr) == Datagram_new_unwrap(bit_repr).datagram

\* a plausible slip: the mask is 1 << index, so the digits come out reversed
RECURSIVE extract_data_loop_ascending(_, _, _, _)
extract_data_loop_ascending(d, min, max, l) ==
    IF l.index >= max THEN l.value
    ELSE LET shifted == Shl1(l.value)
         IN extract_data_loop_ascending(d, min, max,
                [index |-> l.index + 1,
                 value |-> IF l.index \in d.buffer
                           THEN AddPow2(shifted, 0)
                           ELSE shifted])

\* Datagram::extract_data, the loop `for index in min..max`: the loop state
\* is (index, value); the bit under mask 1 << (max + min - index - 1) is
\* shifted into the value from the right
RECURSIVE extract_data_loop(_, _, _, _)
extract_data_loop(d, min, max, l) ==
    IF l.index >= max THEN l.value
    ELSE LET shifted == Shl1(l.value)
         IN extract_data_loop(d, min, max,
                [index |-> l.index + 1,
                 value |-> IF (max + min - l.index - 1) \in d.buffer
                           THEN AddPow2(shifted, 0)
                           ELSE shifted])

\* Datagram::extract_data: panics if max > len or min >= max, else the value
\* (a u128, kept as the set of its set bit positions)
extract_data(d, min, max) ==
    IF max > d.length_in_bit \/ min >= max
    THEN [panic |-> TRUE, value |-> {}]
    ELSE [panic |-> FALSE,
          value |-> extract_data_loop(d, min, max, [index |-> min, value |-> {}])]

\* PartialEq for Datagram
eq(a, b) == a.buffer = b.buffer /\ a.length_in_bit = b.length_in_bit

(***************************************************************************)
(* Datagram iterators: the state is the pair (datagram, index)             *)
(***************************************************************************)
into_big_endian_iter(d) == [datagram |-> d, index |-> len(d)]

into_little_endian_iter(d) == [datagram |-> d, index |-> 0]

\* a plausible slip: an exhausted iterator starts over
DatagramBigEndianIterator_next_restarting(it) ==
    IF 0 < it.index
    THEN [iter |-> [it EXCEPT !.index = it.index - 1],
          item |-> Some(1 = index(it.datagram, it.index - 1))]
    ELSE [iter |-> [it EXCEPT !.index = len(it.datagram)], item |-> None]

\* DatagramBigEndianIterator::next
DatagramBigEndianIterator_next(it) ==
    IF 0 < it.index
    THEN [iter |-> [it EXCEPT !.index = it.index - 1],
          item |-> Some(1 = index(it.datagram, it.index - 1))]
    ELSE [iter |-> it, item |-> None]

\* DatagramLittleEndianIterator::next
DatagramLittleEndianIterator_next(it) ==
    IF len(it.datagram) > it.index
    THEN [iter |-> [it EXCEPT !.index = it.index + 1],
          item |-> Some(1 = index(it.datagram, it.index))]
    ELSE [iter |-> it, item |-> None]

\* the iterator type parameter I of Encoder<I>, chosen by the bit order
Iterator_next(order, it) ==
    IF order = "BigEndian" THEN DatagramBigEndianIterator_next(it)
    ELSE DatagramLittleEndianIterator_next(it)


(***************************************************************************)
(* Encoder<I>: the state is (datagram_iter, first_half_bit, last_value)    *)
(***************************************************************************)
\* Encoder::new: the first bit is fetched at construction
Encoder_new(d, order) ==
    LET it == IF order = "BigEndian" THEN into_big_endian_iter(d)
              ELSE into_little_endian_iter(d)
        first == Iterator_next(order, it)
    IN [datagram_iter |-> first.iter,
        first_half_bit |-> TRUE,
        last_value |-> first.item]

\* a plausible slip: the two half bits of a bit are emitted in the other order
Encoder_next_swapped(e, order) ==
    IF e.last_value = None THEN [encoder |-> e, item |-> None]
    ELSE LET bit == e.last_value[1]
         IN IF e.first_half_bit
            THEN [encoder |-> [e EXCEPT !.first_half_bit = FALSE],
                  item |-> Some(bit)]
            ELSE LET nxt == Iterator_next(order, e.datagram_iter)
                 IN [encoder |-> [datagram_iter |-> nxt.iter,
                                  first_half_bit |-> TRUE,
                                  last_value |-> nxt.item],
                     item |-> Some(~bit)]

\* Encoder::next: first half bit NOT bit, second half bit the bit itself,
\* then the next bit is fetched; None once the iterator has run out
Encoder_next(e, order) ==
    IF e.last_value = None THEN [encoder |-> e, item |-> None]
    ELSE LET bit == e.last_value[1]
         IN IF e.first_half_bit
            THEN [encoder |-> [e EXCEPT !.first_half_bit = FALSE],
                  item |-> Some(~bit)]
            ELSE LET nxt == Iterator_next(order, e.datagram_iter)
                 IN [encoder |-> [datagram_iter |-> nxt.iter,
                                  first_half_bit |-> TRUE,
                                  last_value |-> nxt.item],
                     item |-> Some(bit)]

(***************************************************************************)
(* State                                                                   *)
(***************************************************************************)
VARIABLES
    \* Decoder: configuration
    activity_level, sync_on_turning_edge, bit_order,
    \* Decoder: collected output data and processing control data
    datagram, previous_sample, edge_distance, recording_distance,
    receiving_started, record_marker_reached,
    \* the value the last Decoder::next call returned; whether add_bit's
    \* unwrap has panicked
    return_value, panicked,
    \* what the samples fed so far look like: "none", "idle", "active",
    \* "one_edge" (idle samples, then active samples) or "other"
    shape,
    \* the line driver: lengths of the runs of equal samples fed so far
    \* (odd runs at the idle level, even runs at the activity level)
    runs,
    \* number of Decoder::next calls, and the frames they returned
    calls, returned,
    \* transmission: the datagram sent (by the emitter: the one of the last
    \* accepted send_if_possible call), whether the line inverts the half
    \* bit levels, the encoder with its iterator type, the values the
    \* encoder returned (by the emitter: the PWM states set since the
    \* datagram was accepted), and the samples on the line
    orig, inverted, tx_order, encoder, emitted, line,
    \* datagram operations: the datagram operated on, the (bit, order) pairs
    \* add_bit has stored in it (in the decoder on a long frame: in its
    \* accumulator), the string Datagram::new was given (None if
    \* none), what the last operation returned, the iterator made from the
    \* datagram (None if none) and the values the iterator returned
    sut, appended, bit_repr, result, view, yielded,
    \* InfraredEmitter: its fields (the PWM as the state of its channel and
    \* the duty last set, None if never set), the iterator type it is
    \* instantiated with, and whether send_half_bit has panicked
    emitter_encoder, max_pause_cycles, current_pause_cycles, pwm_enabled,
    pwm_duty, emitter_order, emitter_panicked,
    \* the emitter's caller: the last function called, what the latest
    \* send_if_possible call returned (None if none was made) and the power
    \* it was given
    last_call, send_returned, sending_power,
    \* the emitter's timing: send_half_bit calls since the last transmission
    \* finished (or since construction), send_half_bit calls since the last
    \* half bit that emitted nothing, both counted up to max_pause_cycles;
    \* whether the transmission in progress has emitted no half bit yet, and
    \* whether an earlier transmission has emitted one
    idle_ticks, quiet_ticks, fresh_transmission, emitted_before

decoderVars == <<activity_level, sync_on_turning_edge, bit_order, datagram,
                 previous_sample, edge_distance, recording_distance,
                 receiving_started, record_marker_reached, return_value,
                 panicked>>
lineVars == <<runs, calls, returned>>
txVars == <<orig, inverted, tx_order, encoder, emitted, line>>
opsVars == <<sut, appended, bit_repr, result, view, yielded>>
emitterVars == <<emitter_encoder, max_pause_cycles, current_pause_cycles,
                 pwm_enabled, pwm_duty, emitter_order, emitter_panicked,
                 last_call, send_returned, sending_power, idle_ticks,
                 quiet_ticks, fresh_transmission, emitted_before>>
vars == <<decoderVars, shape, lineVars, txVars, opsVars, emitterVars>>

(***************************************************************************)
(* Decoder                                                                 *)
(***************************************************************************)
\* the level of the line while no datagram is transmitted
IdleLevel == activity_level # "High"

\* Decoder::new
Decoder_new(activity, sync, order) ==
    /\ activity_level = activity
    /\ sync_on_turning_edge = sync
    /\ bit_order = order
    /\ datagram = Datagram_default
    /\ previous_sample = (activity # "High")
    /\ edge_distance = NO_EDGE_EXIT_LIMIT
    /\ recording_distance = NO_EDGE_EXIT_LIMIT
    /\ receiving_started = FALSE
    /\ record_marker_reached = FALSE
    /\ return_value = None
    /\ panicked = FALSE

\* a plausible slip: the distance to the previous edge is not looked at
SyncReached_anydistance(started, sync, ed) == ~started

\* start of the telegram: an edge while reception has not started is the
\* record marker if the sync preference is First, or if it is Second and
\* the edge follows the previous one within a half bit (plus tolerance)
SyncReached(started, sync, ed) ==
    /\ ~started
    /\ \/ sync = "First"
       \/ sync = "Second" /\ ed <= SAMPLES_PER_HALF_BIT_PERIOD + TOLERANCE

\* a plausible slip: the lower barrier is taken one sample too late
InBarrier_narrow(rd) == rd > LOWER_BARRIER /\ rd <= UPPER_BARRIER

\* an edge about one bit period after the last recorded bit is a record marker
InBarrier(rd) == rd >= LOWER_BARRIER /\ rd <= UPPER_BARRIER

\* a plausible slip: the sample itself is recorded
RecordedBit_plain(sample) == sample

\* the bit recorded at a record marker: the negated sample, not mixed with
\* the activity level
RecordedBit(sample) == ~sample

\* a plausible slip: the limit is taken one sample too late
NoEdgeExit_late(ed) == ed > NO_EDGE_EXIT_LIMIT + 1

\* end of datagram condition: no edge anymore
NoEdgeExit(ed) == ed > NO_EDGE_EXIT_LIMIT

\* a plausible slip: the level of the line is not looked at
DatagramComplete_anylevel(d, sample, activity) == ~is_empty(d)

\* a plausible slip: the accumulator is not looked at
DatagramComplete_anydatagram(d, sample, activity) ==
    sample # (activity = "High")

\* the accumulated datagram is returned when it holds a bit and the sample
\* is at the inactivity level: sample ^ (activity_level == High)
DatagramComplete(d, sample, activity) ==
    ~is_empty(d) /\ (sample # (activity = "High"))

\* whether Decoder::next records a bit for this sample
RecordMarker(sample) ==
    /\ sample # previous_sample
    /\ \/ record_marker_reached
       \/ SyncReached(receiving_started, sync_on_turning_edge, edge_distance)
       \/ InBarrier(recording_distance)

\* Decoder::next
Decoder_next(sample) ==
    LET edge == sample # previous_sample
        sync == edge /\ SyncReached(receiving_started, sync_on_turning_edge,
                                    edge_distance)
        started1 == receiving_started \/ sync
        marker == record_marker_reached \/ sync
                  \/ (edge /\ InBarrier(recording_distance))
        record == edge /\ marker
        added == add_bit(datagram, RecordedBit(sample), bit_order)
    IN
    /\ ~panicked
    /\ IF record /\ ~added.ok
       THEN \* add_bit(..).unwrap() panics: the call is abandoned
            /\ panicked' = TRUE
            /\ receiving_started' = started1
            /\ record_marker_reached' = marker
            /\ UNCHANGED <<activity_level, sync_on_turning_edge, bit_order,
                           datagram, previous_sample, edge_distance,
                           recording_distance, return_value>>
       ELSE
         LET d1 == IF record THEN added.datagram ELSE datagram
             rd1 == IF record THEN 1
                    ELSE IF edge THEN recording_distance
                    ELSE (recording_distance + 1) % U8_MODULUS
             ed1 == IF edge THEN 1 ELSE (edge_distance + 1) % U8_MODULUS
             exit == NoEdgeExit(ed1)
             complete == exit /\ DatagramComplete(d1, sample, activity_level)
         IN
         /\ return_value' = IF complete THEN Some(d1) ELSE None
         /\ receiving_started' = IF complete THEN FALSE ELSE started1
         /\ datagram' = IF exit THEN Datagram_default ELSE d1
         /\ edge_distance' = IF exit THEN ed1 - 1 ELSE ed1
         /\ recording_distance' =
              IF rd1 > NO_EDGE_EXIT_LIMIT THEN rd1 - 1 ELSE rd1
         /\ record_marker_reached' = IF record THEN FALSE ELSE marker
         /\ previous_sample' = sample
         /\ UNCHANGED <<activity_level, sync_on_turning_edge, bit_order,
                        panicked>>

(***************************************************************************)
(* The free-running decoder: any sample may follow any other.              *)
(***************************************************************************)
\* how the stream looks once `sample` has been fed
NextShape(sample) ==
    IF shape = "none" THEN (IF sample = IdleLevel THEN "idle" ELSE "active")
    ELSE IF shape = "idle" THEN (IF sample = IdleLevel THEN "idle" ELSE "one_edge")
    ELSE IF shape \in {"active", "one_edge"}
         THEN (IF sample = IdleLevel THEN "other" ELSE shape)
    ELSE "other"

NoLine == runs = << >> /\ calls = 0 /\ returned = << >>
NoTransmission ==
    /\ orig = Datagram_default
    /\ inverted = FALSE
    /\ tx_order = "BigEndian"
    /\ encoder = Encoder_new(Datagram_default, "BigEndian")
    /\ emitted = << >>
    /\ line = << >>

\* what a datagram operation returns: its name, whether it succeeded (FALSE
\* for Err and for a panic), the arguments and the value of extract_data
Result(op, ok, min, max, value) ==
    [op |-> op, ok |-> ok, min |-> min, max |-> max, value |-> value]

\* InfraredEmitter::new(pause_cycles, pwm, channel) for an emitter of the
\* given iterator type, with a PWM whose channel has not been enabled and
\* whose duty has not been set by the emitter
InfraredEmitter_new(pause_cycles, order) ==
    /\ emitter_encoder = None
    /\ max_pause_cycles = pause_cycles
    /\ current_pause_cycles = 0
    /\ pwm_enabled = FALSE
    /\ pwm_duty = None
    /\ emitter_order = order
    /\ emitter_panicked = FALSE
    /\ last_call = "new"
    /\ send_returned = None
    /\ sending_power = 0
    /\ idle_ticks = 0
    /\ quiet_ticks = 0
    /\ fresh_transmission = FALSE
    /\ emitted_before = FALSE

NoEmitter == InfraredEmitter_new(0, "BigEndian")

NoDatagramOps ==
    /\ sut = Datagram_default
    /\ appended = << >>
    /\ bit_repr = None
    /\ result = Result("default", TRUE, 0, 0, {})
    /\ view = None
    /\ yielded = << >>

Init ==
    /\ \E a \in ActivityLevel, s \in SyncOnTurningEdge, o \in BitOrder :
          Decoder_new(a, s, o)
    /\ shape = "none"
    /\ NoLine
    /\ NoTransmission
    /\ NoDatagramOps
    /\ NoEmitter

\* one Decoder::next call with an arbitrary sample
Sample ==
    \E sample \in BOOLEAN :
        /\ ~(RecordMarker(sample) /\ len(datagram) >= MaxBits)
        /\ Decoder_next(sample)
        /\ shape' = NextShape(sample)
        /\ UNCHANGED <<lineVars, txVars, opsVars, emitterVars>>

Next == Sample

Spec == Init /\ [][Next]_vars

(***************************************************************************)
(* The decoder on a driven line: the samples come as runs of equal level,  *)
(* starting from a fresh decoder with the line at the idle level.  Run 1   *)
(* is the idle lead (possibly empty); even runs are at the activity level, *)
(* odd runs at the idle level.                                             *)
(***************************************************************************)
\* lengths of the idle lead, and lengths at which a later run may end
LeadLengths == {0, 8}
RunLengths == {2, 3, 4, 5, 6, 7, 9, MaxRun}

RunLevel(i) == IF i % 2 = 1 THEN IdleLevel ELSE ~IdleLevel

InitLine ==
    /\ \E a \in ActivityLevel, s \in SyncOnTurningEdge, o \in BitOrder :
          Decoder_new(a, s, o)
    /\ shape = "none"
    /\ runs = <<0>>
    /\ calls = 0
    /\ returned = << >>
    /\ NoTransmission
    /\ NoDatagramOps
    /\ NoEmitter

\* the bookkeeping of one Decoder::next call: the call is counted and a
\* returned frame is logged with the number of the call that returned it
LogCall ==
    /\ calls' = calls + 1
    /\ returned' = IF return_value' # None
                   THEN Append(returned, [at |-> calls + 1, frame |-> return_value'[1]])
                   ELSE returned

\* the line keeps its level for one more sample
LineHold ==
    /\ runs[Len(runs)] < MaxRun
    /\ Decoder_next(RunLevel(Len(runs)))
    /\ shape' = NextShape(RunLevel(Len(runs)))
    /\ runs' = [runs EXCEPT ![Len(runs)] = @ + 1]
    /\ LogCall
    /\ UNCHANGED <<txVars, opsVars, emitterVars>>

\* the line changes its level: the next run begins
LineToggle ==
    /\ Len(runs) < MaxRuns
    /\ runs[Len(runs)] \in (IF Len(runs) = 1 THEN LeadLengths ELSE RunLengths)
    /\ Decoder_next(RunLevel(Len(runs) + 1))
    /\ shape' = NextShape(RunLevel(Len(runs) + 1))
    /\ runs' = Append(runs, 1)
    /\ LogCall
    /\ UNCHANGED <<txVars, opsVars, emitterVars>>

NextLine == LineHold \/ LineToggle

SpecLine == InitLine /\ [][NextLine]_vars

(***************************************************************************)
(* Transmission: an Encoder is called once per half bit period, the level  *)
(* it yields is on the line for SAMPLES_PER_HALF_BIT_PERIOD samples (the   *)
(* idle level once it yields None), and a fresh decoder samples the line.  *)
(***************************************************************************)
\* the datagrams of up to MaxLen bits: no bit is set at or above the length
Datagrams ==
    {d \in [length_in_bit : 0..MaxLen, buffer : SUBSET (0..(MaxLen - 1))] :
        \A i \in d.buffer : i < d.length_in_bit}

\* the level of the line for a value the encoder yields: the half bit level,
\* inverted if the line inverts, and the idle level for None
LineLevel(item) ==
    IF item = None THEN IdleLevel ELSE (item[1] # inverted)

InitRoundTrip ==
    /\ \E a \in ActivityLevel, s \in SyncOnTurningEdge, o \in BitOrder :
          Decoder_new(a, s, o)
    /\ shape = "none"
    /\ runs = << >>
    /\ calls = 0
    /\ returned = << >>
    /\ orig \in Datagrams
    /\ inverted \in BOOLEAN
    /\ tx_order \in BitOrder
    /\ encoder = Encoder_new(orig, tx_order)
    /\ emitted = << >>
    /\ line = << >>
    /\ NoDatagramOps
    /\ NoEmitter

\* a half bit period begins: Encoder::next is called and its level is put on
\* the line
HalfBitTick ==
    /\ line = << >>
    /\ Len(emitted) < 2 * len(orig) + IdleTicks
    /\ LET r == Encoder_next(encoder, tx_order)
       IN /\ encoder' = r.encoder
          /\ emitted' = Append(emitted, r.item)
          /\ line' = [k \in 1..SAMPLES_PER_HALF_BIT_PERIOD |-> LineLevel(r.item)]
    /\ UNCHANGED <<decoderVars, shape, lineVars, orig, inverted, tx_order,
                   opsVars, emitterVars>>

\* the decoder takes the next sample from the line
LineSample ==
    /\ line # << >>
    /\ Decoder_next(Head(line))
    /\ shape' = NextShape(Head(line))
    /\ line' = Tail(line)
    /\ LogCall
    /\ UNCHANGED <<runs, orig, inverted, tx_order, encoder, emitted, opsVars,
                   emitterVars>>

NextRoundTrip == HalfBitTick \/ LineSample

SpecRoundTrip == InitRoundTrip /\ [][NextRoundTrip]_vars

(***************************************************************************)
(* Datagram operations: a datagram is made bit by bit with add_bit or from *)
(* a string with Datagram::new, then read with extract_data or through one *)
(* of its two iterators.                                                   *)
(***************************************************************************)
\* the characters of the freely chosen strings: the two binary characters
\* and a delimiter
Chars == {"0", "1", "-"}

\* the string of the examples of extract_data, Datagram::new and index
DocString ==
    <<"0", "-", "1", "1", "1", "_", "1", "0", "1", "0", "1", "_",
      "0", "0", "0", "0", "1", "1", "1", "1">>

\* the string of the unit test of extract_data
TestString == <<"1", "1", "0", "0", "1", "0">>

\* the string of the unit tests of Datagram::new and of the comparison
CompareString == <<"0", "1", "-", "0", "1", "1", "1">>

\* the string p repeated up to n characters
Repeat(p, n) == [i \in 1..n |-> p[((i - 1) % Len(p)) + 1]]

\* strings that fill a datagram, and strings one binary character longer
LongStrings == {Repeat(<<"1", "0", "0">>, n) : n \in {CAPACITY, CAPACITY + 1}}

\* the strings handed to Datagram::new
Strings ==
    UNION {[1..k -> Chars] : k \in 0..MaxStr}
        \cup {DocString, TestString, CompareString} \cup LongStrings

\* the binary characters of a string, in string order
IsBinary(c) == c \in {"0", "1"}
BinaryChars(s) == SelectSeq(s, IsBinary)

InitDatagram ==
    /\ Decoder_new("High", "First", "BigEndian")
    /\ shape = "none"
    /\ NoLine
    /\ NoTransmission
    /\ NoDatagramOps
    /\ NoEmitter

\* datagram.add_bit(bit, order): the first MaxFree calls take any bit and
\* order, later calls repeat the input MaxFree calls back
AddBit ==
    \E bit \in BOOLEAN, order \in BitOrder :
        /\ bit_repr = None
        /\ view = None
        /\ \/ Len(appended) < MaxFree
           \/ /\ Len(appended) >= MaxFree
              /\ appended[Len(appended) + 1 - MaxFree] = [bit |-> bit, order |-> order]
        /\ LET r == add_bit(sut, bit, order)
           IN /\ sut' = r.datagram
              /\ appended' = IF r.ok
                             THEN Append(appended, [bit |-> bit, order |-> order])
                             ELSE appended
              /\ result' = Result("add_bit", r.ok, 0, 0, {})
        /\ UNCHANGED <<decoderVars, shape, lineVars, txVars, emitterVars,
                   bit_repr, view,
                       yielded>>

\* Datagram::new(s) in a program that has made no datagram yet
New ==
    \E s \in Strings :
        /\ result.op = "default"
        /\ LET r == Datagram_new_unwrap(s)
           IN /\ sut' = r.datagram
              /\ result' = Result("new", r.ok, 0, 0, {})
        /\ bit_repr' = Some(s)
        /\ UNCHANGED <<decoderVars, shape, lineVars, txVars, emitterVars,
                   appended, view,
                       yielded>>

\* datagram.extract_data(min, max) on a datagram just made by Datagram::new
ExtractData ==
    /\ bit_repr # None
    /\ view = None
    /\ result.op = "new"
    /\ result.ok
    /\ \E min \in 0..len(sut), max \in 0..(len(sut) + 1) :
          LET r == extract_data(sut, min, max)
          IN result' = Result("extract_data", ~r.panic, min, max, r.value)
    /\ UNCHANGED <<decoderVars, shape, lineVars, txVars, emitterVars,
                   sut, appended,
                   bit_repr, view, yielded>>

\* datagram.into_big_endian_iter() or datagram.into_little_endian_iter() on
\* a datagram just made by Datagram::new
IntoIter ==
    \E order \in BitOrder :
        /\ bit_repr # None
        /\ view = None
        /\ result.op = "new"
        /\ result.ok
        /\ view' = Some([order |-> order,
                         iter |-> IF order = "BigEndian"
                                  THEN into_big_endian_iter(sut)
                                  ELSE into_little_endian_iter(sut)])
        /\ yielded' = << >>
        /\ result' = Result("into_iter", TRUE, 0, 0, {})
        /\ UNCHANGED <<decoderVars, shape, lineVars, txVars, emitterVars,
                   sut, appended,
                       bit_repr>>

\* next() on the datagram iterator
ViewNext ==
    /\ view # None
    /\ Len(yielded) < len(sut) + MaxExtra
    /\ LET r == Iterator_next(view[1].order, view[1].iter)
       IN /\ view' = Some([order |-> view[1].order, iter |-> r.iter])
          /\ yielded' = Append(yielded, r.item)
    /\ result' = Result("next", TRUE, 0, 0, {})
    /\ UNCHANGED <<decoderVars, shape, lineVars, txVars, emitterVars,
                   sut, appended,
                   bit_repr>>

NextDatagram == AddBit \/ New \/ ExtractData \/ IntoIter \/ ViewNext

SpecDatagram == InitDatagram /\ [][NextDatagram]_vars

(***************************************************************************)
(* InfraredEmitter: send_half_bit is called once per half bit period and   *)
(* send_if_possible at any time between two such calls.                    *)
(***************************************************************************)
\* the pause the crate example configures, and the power the doc comment of
\* send_if_possible names as the highest
PAUSE_HALF_BITS_BETWEEN_DATAGRAMS == 3
MAX_SENDING_POWER == 25

\* the pauses an emitter is made with, and the datagrams and powers handed
\* to send_if_possible
Pauses == 0..MaxPause
Powers == {MAX_SENDING_POWER, MAX_SENDING_POWER + 1}
SentStrings == UNION {[1..k -> {"0", "1"}] : k \in 0..MaxSent}
SentDatagrams == {Datagram_new(s) : s \in SentStrings}

\* a counter of the caller's clock, counted up to max_pause_cycles
CountUp(n) == IF n < max_pause_cycles THEN n + 1 ELSE n

\* whether the next send_half_bit call emits a half bit
EmitsHalfBit ==
    /\ emitter_encoder # None
    /\ Encoder_next(emitter_encoder[1], emitter_order).item # None

InitEmitter ==
    /\ Decoder_new("High", "First", "BigEndian")
    /\ shape = "none"
    /\ NoLine
    /\ NoTransmission
    /\ NoDatagramOps
    /\ \E pause_cycles \in Pauses, order \in BitOrder :
          InfraredEmitter_new(pause_cycles, order)

\* InfraredEmitter::send_half_bit
SendHalfBit ==
    /\ ~emitter_panicked
    /\ last_call' = "send_half_bit"
    /\ IF emitter_encoder # None
       THEN LET r == Encoder_next(emitter_encoder[1], emitter_order)
            IN IF r.item # None
               THEN \* Some(half_bit): the PWM is enabled or disabled
                    /\ pwm_enabled' = r.item[1]
                    /\ emitter_encoder' = Some(r.encoder)
                    /\ quiet_ticks' = 0
                    /\ fresh_transmission' = FALSE
                    /\ emitted_before' = TRUE
                    /\ emitted' = Append(emitted, pwm_enabled')
                    /\ UNCHANGED <<current_pause_cycles, emitter_panicked,
                                   idle_ticks, orig>>
               ELSE \* None: the transmission is finished
                    /\ pwm_enabled' = FALSE
                    /\ emitter_encoder' = None
                    /\ current_pause_cycles' = 0
                    /\ idle_ticks' = 0
                    /\ quiet_ticks' = CountUp(quiet_ticks)
                    /\ fresh_transmission' = FALSE
                    /\ orig' = Datagram_default
                    /\ emitted' = << >>
                    /\ UNCHANGED <<emitter_panicked, emitted_before>>
       ELSE \* no encoder: current_pause_cycles += 1 on a u8; at 255 the
            \* addition panics in a build with overflow checks and wraps to
            \* 0 in a build without
            /\ \/ /\ current_pause_cycles + 1 < U8_MODULUS
                  /\ current_pause_cycles' = current_pause_cycles + 1
                  /\ UNCHANGED emitter_panicked
               \/ /\ current_pause_cycles + 1 = U8_MODULUS
                  /\ current_pause_cycles' = 0
                  /\ UNCHANGED emitter_panicked
               \/ /\ current_pause_cycles + 1 = U8_MODULUS
                  /\ emitter_panicked' = TRUE
                  /\ UNCHANGED current_pause_cycles
            /\ idle_ticks' = CountUp(idle_ticks)
            /\ quiet_ticks' = IF pwm_enabled THEN 0 ELSE CountUp(quiet_ticks)
            /\ UNCHANGED <<pwm_enabled, emitter_encoder, fresh_transmission,
                           emitted_before, orig, emitted>>
    /\ UNCHANGED <<max_pause_cycles, pwm_duty, emitter_order, send_returned,
                   sending_power>>
    /\ UNCHANGED <<decoderVars, shape, lineVars, opsVars>>
    /\ UNCHANGED <<inverted, tx_order, encoder, line>>

\* a plausible slip: a rejected call starts the pause anew
SendIfPossible_restarts_pause ==
    \E datagram_arg \in SentDatagrams, power \in Powers :
        /\ ~emitter_panicked
        /\ last_call' = "send_if_possible"
        /\ sending_power' = power
        /\ IF current_pause_cycles < max_pause_cycles
           THEN /\ send_returned' = Some(FALSE)
                /\ current_pause_cycles' = 0
                /\ UNCHANGED <<emitter_encoder, pwm_duty, fresh_transmission,
                               orig, emitted>>
           ELSE /\ pwm_duty' = Some(power)
                /\ emitter_encoder' = Some(Encoder_new(datagram_arg, emitter_order))
                /\ send_returned' = Some(TRUE)
                /\ fresh_transmission' = TRUE
                /\ orig' = datagram_arg
                /\ emitted' = << >>
                /\ UNCHANGED current_pause_cycles
        /\ UNCHANGED <<max_pause_cycles, pwm_enabled,
                       emitter_order, emitter_panicked, idle_ticks,
                       quiet_ticks, emitted_before>>
        /\ UNCHANGED <<decoderVars, shape, lineVars, opsVars>>
        /\ UNCHANGED <<inverted, tx_order, encoder, line>>

\* InfraredEmitter::send_if_possible(datagram, sending_power), of either
\* iterator type
SendIfPossible ==
    \E datagram_arg \in SentDatagrams, power \in Powers :
        /\ ~emitter_panicked
        /\ last_call' = "send_if_possible"
        /\ sending_power' = power
        /\ IF current_pause_cycles < max_pause_cycles
           THEN /\ send_returned' = Some(FALSE)
                /\ UNCHANGED <<emitter_encoder, pwm_duty, fresh_transmission,
                               orig, emitted>>
           ELSE /\ pwm_duty' = Some(power)
                /\ emitter_encoder' = Some(Encoder_new(datagram_arg, emitter_order))
                /\ send_returned' = Some(TRUE)
                /\ fresh_transmission' = TRUE
                /\ orig' = datagram_arg
                /\ emitted' = << >>
        /\ UNCHANGED <<max_pause_cycles, current_pause_cycles, pwm_enabled,
                       emitter_order, emitter_panicked, idle_ticks,
                       quiet_ticks, emitted_before>>
        /\ UNCHANGED <<decoderVars, shape, lineVars, opsVars>>
        /\ UNCHANGED <<inverted, tx_order, encoder, line>>

NextEmitter == SendHalfBit \/ SendIfPossible

SpecEmitter == InitEmitter /\ [][NextEmitter]_vars

(***************************************************************************)
(* The decoder on a long frame: as on the driven line, the samples come as *)
(* runs of equal level from a fresh decoder on an idle line.  The runs of  *)
(* a frame last a half bit or a bit period; the first MaxFree of them are  *)
(* free and the later ones repeat them, so that frames up to and beyond    *)
(* the capacity of a Datagram are reached.  A run longer than a bit period *)
(* ends the frame, and the stream ends with the first frame returned.      *)
(***************************************************************************)
\* lengths at which a run of a frame may end
FrameRunLengths ==
    {SAMPLES_PER_HALF_BIT_PERIOD, 2 * SAMPLES_PER_HALF_BIT_PERIOD}

\* runs enough for a frame of a bit more than the capacity, two runs a bit
MaxFrameRuns == 2 * (CAPACITY + 1) + 2

\* the bits recorded in the accumulator, in the order of their recording,
\* once the call of this step has been made with `sample`
LogRecorded(sample) ==
    appended' = IF panicked' THEN appended
                ELSE IF len(datagram') = len(datagram) + 1
                     THEN Append(appended, [bit |-> RecordedBit(sample),
                                            order |-> bit_order])
                ELSE IF is_empty(datagram') THEN << >>
                ELSE appended

InitFrame ==
    /\ \E a \in ActivityLevel, s \in SyncOnTurningEdge, o \in BitOrder :
          Decoder_new(a, s, o)
    /\ shape = "none"
    /\ runs = <<0>>
    /\ calls = 0
    /\ returned = << >>
    /\ NoTransmission
    /\ NoDatagramOps
    /\ NoEmitter

\* the line keeps its level for one more sample
FrameHold ==
    /\ returned = << >>
    /\ runs[Len(runs)] < MaxRun
    /\ Decoder_next(RunLevel(Len(runs)))
    /\ shape' = NextShape(RunLevel(Len(runs)))
    /\ runs' = [runs EXCEPT ![Len(runs)] = @ + 1]
    /\ LogCall
    /\ LogRecorded(RunLevel(Len(runs)))
    /\ UNCHANGED <<sut, bit_repr, result, view, yielded>>
    /\ UNCHANGED <<txVars, emitterVars>>

\* the line changes its level: the next run begins
FrameToggle ==
    /\ returned = << >>
    /\ Len(runs) < MaxFrameRuns
    /\ runs[Len(runs)] \in (IF Len(runs) = 1 THEN LeadLengths
                            ELSE FrameRunLengths)
    /\ Len(runs) > 1 + MaxFree => runs[Len(runs)] = runs[Len(runs) - MaxFree]
    /\ Decoder_next(RunLevel(Len(runs) + 1))
    /\ shape' = NextShape(RunLevel(Len(runs) + 1))
    /\ runs' = Append(runs, 1)
    /\ LogCall
    /\ LogRecorded(RunLevel(Len(runs) + 1))
    /\ UNCHANGED <<sut, bit_repr, result, view, yielded>>
    /\ UNCHANGED <<txVars, emitterVars>>

NextFrame == FrameHold \/ FrameToggle

SpecFrame == InitFrame /\ [][NextFrame]_vars

(***************************************************************************)
(* Claims about the free-running decoder (specification Spec).  After a    *)
(* call previous_sample holds the sample of that call: it is assigned on   *)
(* an edge and was equal to it otherwise.                                  *)
(***************************************************************************)

\* C3: a Decoder::next call returns Some(frame) if and only if its sample
\* equals the previous sample, edge_distance stood at NO_EDGE_EXIT_LIMIT (so
\* it reaches 10 in the call), the accumulator is not empty and the sample is
\* at the idle level; the frame returned is the accumulator as it stood; every
\* other call returns None.
C3_ReturnIffSilentIdleNonEmpty ==
    [][~panicked' =>
        /\ (return_value' # None) <=>
              /\ previous_sample' = previous_sample
              /\ edge_distance = NO_EDGE_EXIT_LIMIT
              /\ ~is_empty(datagram)
              /\ previous_sample' = IdleLevel
        /\ return_value' # None => return_value' = Some(datagram)]_vars

\* a frame of two bits has just been returned
C3_Witness ==
    /\ return_value # None
    /\ len(return_value[1]) = 2
    /\ is_empty(datagram)

\* C6: a constant sample stream fed to a fresh decoder never returns a frame,
\* whichever the level and the configuration; if the constant level is the
\* idle level the accumulator stays empty; and no call whose sample equals the
\* previous sample makes the accumulator longer.
C6_IdleIdempotence ==
    [][/\ shape' \in {"idle", "active"} => return_value' = None
       /\ shape' = "idle" => is_empty(datagram')
       /\ previous_sample' = previous_sample => len(datagram') <= len(datagram)]_vars

\* a constant stream at the activity level, long enough for the bit recorded
\* at its first sample to have been dropped again
C6_Witness ==
    /\ shape = "active"
    /\ receiving_started
    /\ is_empty(datagram)
    /\ edge_distance = NO_EDGE_EXIT_LIMIT

\* C7: from a fresh decoder on an idle line, a stream with exactly one edge
\* (idle to active) followed by constant samples, however many, never returns
\* a frame, in every configuration.
C7_OneEdgeNoFrame ==
    shape \in {"one_edge", "active"} => return_value = None

\* idle samples, one edge, and more than NO_EDGE_EXIT_LIMIT constant samples:
\* the bit recorded at the edge has been dropped
C7_Witness ==
    /\ shape = "one_edge"
    /\ receiving_started
    /\ is_empty(datagram)
    /\ edge_distance = NO_EDGE_EXIT_LIMIT

(***************************************************************************)
(* Claims about the decoder on a driven line (specification SpecLine).     *)
(***************************************************************************)
ReturnedFrames == [i \in 1..Len(returned) |-> returned[i].frame]

\* the datagram a decoder of bit order `order` holds after recording `bits`
RECURSIVE Recorded(_, _, _)
Recorded(d, bits, order) ==
    IF bits = << >> THEN d
    ELSE Recorded(add_bit(d, Head(bits), order).datagram, Tail(bits), order)

\* whether the samples fed so far are a prefix of the stream whose runs are
\* `stream`
StreamPrefix(stream) ==
    /\ Len(runs) <= Len(stream)
    /\ \A i \in 1..(Len(runs) - 1) : runs[i] = stream[i]
    /\ runs[Len(runs)] <= stream[Len(runs)]

\* 8 samples at the idle level, 3 at the activity level, 10 at the idle level
Stream_8_3_10 == <<8, 3, 10>>

RECURSIVE FrameFrom(_, _, _)
FrameFrom(r, i, tol) ==
    LET k == Len(r)
        half == (SAMPLES_PER_HALF_BIT_PERIOD - tol)..(SAMPLES_PER_HALF_BIT_PERIOD + tol)
        period == (2 * SAMPLES_PER_HALF_BIT_PERIOD - tol)..(2 * SAMPLES_PER_HALF_BIT_PERIOD + tol)
        bit == RecordedBit(RunLevel(i))
        silent == k % 2 = 1 /\ r[k] > NO_EDGE_EXIT_LIMIT
        bad == [ok |-> FALSE, bits |-> << >>]
    IN IF i > k THEN bad
       ELSE IF i = k
            THEN (IF silent THEN [ok |-> TRUE, bits |-> <<bit>>] ELSE bad)
       ELSE IF r[i] \in period
            THEN LET rest == FrameFrom(r, i + 1, tol)
                 IN [ok |-> rest.ok, bits |-> <<bit>> \o rest.bits]
       ELSE IF r[i] \in half /\ i + 1 = k
            THEN (IF silent THEN [ok |-> TRUE, bits |-> <<bit>>] ELSE bad)
       ELSE IF r[i] \in half /\ r[i + 1] \in half /\ (r[i] + r[i + 1]) \in period
            THEN LET rest == FrameFrom(r, i + 2, tol)
                 IN [ok |-> rest.ok, bits |-> <<bit>> \o rest.bits]
       ELSE bad

\* the run that begins with the first mid-bit edge of a frame following the
\* idle lead: the first edge with sync on the first edge; with sync on the
\* second edge the frame begins with a half bit at the activity level
FirstMidBitRun == IF sync_on_turning_edge = "First" THEN 2 ELSE 3

FrameAligned ==
    /\ Len(runs) >= FirstMidBitRun
    /\ sync_on_turning_edge = "Second" =>
          runs[2] \in (SAMPLES_PER_HALF_BIT_PERIOD - TOLERANCE)..
                      (SAMPLES_PER_HALF_BIT_PERIOD + TOLERANCE)

\* C8: a frame whose mid-bit edges follow one another after 5, 6 or 7 samples,
\* whatever its bits (runs of equal bits with their bit-boundary edges
\* included), has every bit recorded and is returned complete.
C8_TimingTolerance ==
    LET frame == FrameFrom(runs, FirstMidBitRun, TOLERANCE)
    IN (FrameAligned /\ frame.ok)
       => ReturnedFrames = <<Recorded(Datagram_default, frame.bits, bit_order)>>

\* C2: after an incomplete frame has been discarded (sync on the first edge:
\* the bit recorded at the first edge, then the line stuck at the activity
\* level for more than NO_EDGE_EXIT_LIMIT samples) and the line has been idle
\* for more than NO_EDGE_EXIT_LIMIT samples, the next nominally timed frame is
\* decoded and returned.
C2_Resynchronization ==
    LET frame == FrameFrom(runs, 4, 0)
    IN (/\ sync_on_turning_edge = "First"
        /\ Len(runs) >= 4
        /\ runs[2] > NO_EDGE_EXIT_LIMIT
        /\ runs[3] > NO_EDGE_EXIT_LIMIT
        /\ frame.ok)
       => ReturnedFrames = <<Recorded(Datagram_default, frame.bits, bit_order)>>

\* C9: when, after a bit has been recorded (sync on the first edge: at the
\* first edge), more than UPPER_BARRIER samples pass without a record marker
\* and the signal goes on with further edges before it falls silent, no
\* datagram is returned for that frame.
C9_MalformedRejected ==
    (/\ sync_on_turning_edge = "First"
     /\ Len(runs) >= 5
     /\ runs[2] > UPPER_BARRIER /\ runs[2] <= NO_EDGE_EXIT_LIMIT
     /\ \A i \in 3..(Len(runs) - 1) : runs[i] <= NO_EDGE_EXIT_LIMIT)
    => returned = << >>

(***************************************************************************)
(* Claims about transmission (specification SpecRoundTrip).                *)
(***************************************************************************)
\* the whole frame and the trailing idle period have been sampled
Transmitted ==
    /\ Len(emitted) = 2 * len(orig) + IdleTicks
    /\ line = << >>

\* the sync preference fits the frame: First when the first half bit is at
\* the idle level (the first edge is then the mid-bit edge of the first bit),
\* Second when it is at the activity level
SyncFitsFrame ==
    (sync_on_turning_edge = "First") <=> (LineLevel(emitted[1]) = IdleLevel)

FirstReceivedBit(d) ==
    IF bit_order = "BigEndian" THEN index(d, len(d) - 1) ELSE index(d, 0)

\* the table of Decoder::new
TableFirstBit ==
    IF activity_level = "High"
    THEN (IF sync_on_turning_edge = "First" THEN 0 ELSE 1)
    ELSE (IF sync_on_turning_edge = "First" THEN 1 ELSE 0)

\* the half bit periods in which the line is at `level`
PeriodsAt(level) == {k \in 1..Len(emitted) : LineLevel(emitted[k]) = level}

Min(S) == CHOOSE x \in S : \A y \in S : x <= y

\* the second edge of the frame follows the first after one half bit period
SecondEdgeAfterHalfBit ==
    /\ PeriodsAt(~IdleLevel) # {}
    /\ LET first == Min(PeriodsAt(~IdleLevel))
       IN (first + 1) \in PeriodsAt(IdleLevel)

SourceBit(k) ==
    IF tx_order = "BigEndian" THEN index(orig, len(orig) - k) = 1
    ELSE index(orig, k - 1) = 1

\* C10: the Encoder over a datagram of n bits yields 2n values, for each
\* source bit in traversal order NOT b and then b, and None on every later
\* call; big endian over Datagram "01" yields true, false, false, true, None.
C10_EncoderHalfBits ==
    /\ \A k \in 1..Len(emitted) :
          emitted[k] = IF k > 2 * len(orig) THEN None
                       ELSE IF k % 2 = 1 THEN Some(~SourceBit((k + 1) \div 2))
                       ELSE Some(SourceBit(k \div 2))
    /\ (orig = Datagram_new(<<"0", "1">>) /\ tx_order = "BigEndian" /\ Len(emitted) >= 5)
          => SubSeq(emitted, 1, 5) = <<Some(TRUE), Some(FALSE), Some(FALSE), Some(TRUE), None>>

\* the encoder of Datagram "01" has been called twice after it ran out
C10_Witness ==
    /\ orig = Datagram_new(<<"0", "1">>)
    /\ tx_order = "BigEndian"
    /\ Len(emitted) = 2 * len(orig) + 2
    /\ emitted[Len(emitted)] = None

(***************************************************************************)
(* Claims about the datagram operations (specification SpecDatagram).      *)
(***************************************************************************)
\* the k-th value (k = 1, 2, ..) a view of the given order has to hand out
ViewExpected(order, k) ==
    IF k > len(sut) THEN None
    ELSE IF order = "BigEndian" THEN Some(index(sut, len(sut) - k) = 1)
    ELSE Some(index(sut, k - 1) = 1)

\* C11: the big-endian view yields datagram[len-1], .., datagram[0] (for
\* Datagram::new(s): the binary characters of s in string order), the
\* little-endian view yields datagram[0], .., datagram[len-1] (the reverse);
\* each view yields exactly len values and None on every later call.
C11_ViewsYieldLenValues ==
    view # None =>
        LET c == BinaryChars(bit_repr[1])
            n == Len(c)
        IN /\ n = len(sut)
           /\ \A k \in 1..Len(yielded) :
                 /\ yielded[k] = ViewExpected(view[1].order, k)
                 /\ (yielded[k] # None) <=> (k <= len(sut))
                 /\ (k <= n /\ view[1].order = "BigEndian")
                       => yielded[k] = Some(c[k] = "1")
                 /\ (k <= n /\ view[1].order = "LittleEndian")
                       => yielded[k] = Some(c[n + 1 - k] = "1")

\* the big-endian view of the documented datagram has been called MaxExtra
\* times after it ran out
C11_Witness ==
    /\ view # None
    /\ view[1].order = "BigEndian"
    /\ bit_repr = Some(DocString)
    /\ Len(yielded) = len(sut) + MaxExtra
    /\ yielded[Len(yielded)] = None

\* every add_bit call so far was made with bit order o
SameOrder(o) == \A k \in 1..Len(appended) : appended[k].order = o

\* b_i: the bit handed to the (i+1)-th successful add_bit call, as a number
AppendedBit(i) == IF appended[i + 1].bit THEN 1 ELSE 0

C13_AddBitCapacity ==
    [][(result'.op = "add_bit" /\ bit_repr' = None) =>
          IF len(sut) = CAPACITY
          THEN ~result'.ok /\ sut' = sut
          ELSE result'.ok /\ len(sut') = len(sut) + 1]_vars

\* add_bit has been refused on a full datagram that holds a one
C13_Witness ==
    /\ result.op = "add_bit"
    /\ ~result.ok
    /\ len(sut) = CAPACITY
    /\ sut.buffer # {}

C16_NewIgnoresDelimiters ==
    (bit_repr # None /\ ~(result.op = "new" /\ ~result.ok)) =>
        LET c == BinaryChars(bit_repr[1])
            n == Len(c)
        IN /\ len(sut) = n
           /\ \A i \in 0..(n - 1) :
                 index(sut, i) = IF c[n - i] = "1" THEN 1 ELSE 0
           /\ bit_repr[1] = <<"0", "1">>
                 => (index(sut, 0) = 1 /\ index(sut, 1) = 0)

\* Datagram::new has returned the documented datagram: 17 bits out of 20
\* characters
C16_Witness ==
    /\ bit_repr = Some(DocString)
    /\ result.op = "new"
    /\ result.ok
    /\ len(sut) = Len(DocString) - 3
    /\ index(sut, 0) = 1
    /\ index(sut, 5) = 0

(***************************************************************************)
(* Claims about the InfraredEmitter (specification SpecEmitter).  A step   *)
(* with last_call' = "send_if_possible" is a send_if_possible call, a step *)
(* with last_call' = "send_half_bit" a send_half_bit call.                 *)
(***************************************************************************)

\* C17: send_if_possible returns true (and attaches a new encoder) only if no
\* transmission is in progress and at least max_pause_cycles send_half_bit
\* calls have been made since the previous transmission finished; it returns
\* false whenever a transmission is in progress.
C17_SendOnlyWhenIdle ==
    [][(last_call' = "send_if_possible" /\ send_returned' = Some(TRUE)) =>
          /\ emitter_encoder = None
          /\ idle_ticks >= max_pause_cycles
          /\ emitter_encoder' # None]_vars

\* C18: with a pause of 3 half bits, the first send_if_possible call of a
\* new emitter returns true, and a call that follows a successful one while
\* its transmission is in progress, or fewer than 3 send_half_bit calls after
\* it finished, returns false.
C18_TrueThenFalse ==
    [][(last_call' = "send_if_possible"
          /\ max_pause_cycles = PAUSE_HALF_BITS_BETWEEN_DATAGRAMS) =>
          /\ last_call = "new" => send_returned' = Some(TRUE)
          /\ (send_returned = Some(TRUE)
                /\ (emitter_encoder # None \/ idle_ticks < max_pause_cycles))
                => send_returned' = Some(FALSE)]_vars

\* C19: whenever send_half_bit emits the first half bit of a transmission
\* after a half bit of an earlier transmission, at least max_pause_cycles
\* send_half_bit calls in between have emitted nothing and left the PWM
\* disabled.
C19_MinimumSilence ==
    [][(last_call' = "send_half_bit" /\ EmitsHalfBit
          /\ fresh_transmission /\ emitted_before) =>
          quiet_ticks >= max_pause_cycles]_vars

\* C20: on a successful send_if_possible the duty set on the PWM is the
\* requested sending_power, reduced to 25 if it is higher.
C20_PowerClamped ==
    [][(last_call' = "send_if_possible" /\ send_returned' = Some(TRUE)) =>
          pwm_duty' = Some(IF sending_power' > MAX_SENDING_POWER
                           THEN MAX_SENDING_POWER
                           ELSE sending_power')]_vars

(***************************************************************************)
(* Claims about one Decoder::next call (specification Spec).               *)
(***************************************************************************)
\* the call of this step appended the bit of its sample to the accumulator
BitAppended ==
    datagram' = add_bit(datagram, RecordedBit(previous_sample'),
                        bit_order).datagram

\* the call of this step observed an edge
EdgeObserved == previous_sample' # previous_sample

\* C27: in every configuration and for every sample sequence, edge_distance
\* and recording_distance are within 1..NO_EDGE_EXIT_LIMIT after every
\* Decoder::next call and at construction, so the u8 counters never overflow.
C27_CounterBounds ==
    /\ edge_distance \in 1..NO_EDGE_EXIT_LIMIT
    /\ recording_distance \in 1..NO_EDGE_EXIT_LIMIT
    /\ NO_EDGE_EXIT_LIMIT + 1 < U8_MODULUS

\* the line has been silent after some edges for so long that both counters
\* are held at the limit
C27_Witness ==
    /\ shape = "other"
    /\ edge_distance = NO_EDGE_EXIT_LIMIT
    /\ recording_distance = NO_EDGE_EXIT_LIMIT

\* C25: a Decoder::next call appends a bit iff it observes an edge and either
\* reception has not started and the sync preference is First, or is Second
\* with edge_distance <= SAMPLES_PER_HALF_BIT_PERIOD + TOLERANCE, or
\* recording_distance is within [LOWER_BARRIER, UPPER_BARRIER]; at most one
\* bit is appended, and afterwards both distances are 1.
C25_RecordMarkerRule ==
    [][~panicked' =>
        LET start == /\ ~receiving_started
                     /\ \/ sync_on_turning_edge = "First"
                        \/ /\ sync_on_turning_edge = "Second"
                           /\ edge_distance
                                <= SAMPLES_PER_HALF_BIT_PERIOD + TOLERANCE
            barrier == recording_distance \in LOWER_BARRIER..UPPER_BARRIER
        IN /\ BitAppended <=> (EdgeObserved /\ (start \/ barrier))
           /\ len(datagram') <= len(datagram) + 1
           /\ len(datagram') > len(datagram) => BitAppended
           /\ BitAppended => /\ recording_distance' = 1
                             /\ edge_distance' = 1]_vars

\* a second bit has just been appended: reception had started, so the edge
\* was a record marker by its recording distance
C25_Witness ==
    /\ len(datagram) >= 2
    /\ recording_distance = 1
    /\ edge_distance = 1

\* C24: after every call in which edge_distance exceeded NO_EDGE_EXIT_LIMIT,
\* whether a frame is returned or the accumulator is discarded, the
\* accumulator is empty and receiving_started is false.
C24_EndOfFrameResets ==
    [][(/\ ~panicked'
        /\ ~EdgeObserved
        /\ NoEdgeExit(edge_distance + 1))
       => /\ is_empty(datagram')
          /\ ~receiving_started']_vars

\* C26: every call that appends no bit advances recording_distance by one
\* while it is below NO_EDGE_EXIT_LIMIT, whether or not the call observes an
\* edge.
C26_RecordingDistanceCountsCalls ==
    [][(/\ ~panicked'
        /\ ~BitAppended
        /\ recording_distance < NO_EDGE_EXIT_LIMIT)
       => recording_distance' = recording_distance + 1]_vars

(***************************************************************************)
(* The two-bit scenario on a driven line (specification SpecLine).         *)
(***************************************************************************)
\* 8 samples at the idle level, then 3 active, 3 idle, 3 active, 10 idle
Stream_8_3_3_3_10 == <<8, 3, 3, 3, 10>>

HalfBitOf(d, order, k) ==
    LET j == (k + 1) \div 2
        bit == IF order = "BigEndian" THEN index(d, len(d) - j) = 1
               ELSE index(d, j - 1) = 1
    IN IF k % 2 = 1 THEN ~bit ELSE bit

\* C28: after send_if_possible has accepted a datagram of n bits, and while
\* no further send is accepted, the k-th send_half_bit call (k = 1..2n)
\* enables the PWM iff the k-th half bit of the datagram is true, and the
\* (2n+1)-th call disables the PWM, detaches the encoder and resets the pause
\* counter to 0; no transmission takes more than 2n+1 calls.
C28_TransmissionProgress ==
    [][(/\ last_call' = "send_half_bit"
        /\ emitter_encoder # None)
       => LET n == len(orig)
              k == Len(emitted) + 1
          IN /\ ~emitter_panicked'
             /\ k <= 2 * n + 1
             /\ k <= 2 * n =>
                  /\ pwm_enabled' = HalfBitOf(orig, emitter_order, k)
                  /\ emitter_encoder' # None
                  /\ UNCHANGED current_pause_cycles
             /\ k = 2 * n + 1 =>
                  /\ pwm_enabled' = FALSE
                  /\ emitter_encoder' = None
                  /\ current_pause_cycles' = 0]_vars

\* a transmission of an emitter with a pause has just been finished by a
\* send_half_bit call, after half bits have been emitted
C28_Witness ==
    /\ last_call = "send_half_bit"
    /\ emitter_encoder = None
    /\ max_pause_cycles > 0
    /\ idle_ticks = 0
    /\ emitted_before
    /\ ~pwm_enabled
    /\ current_pause_cycles = 0

\* C29: a send_if_possible call that returns false leaves the attached
\* encoder and its position, the pause counter and the duty and the enable
\* state of the PWM unchanged, so that later send_half_bit calls transmit
\* nothing of the rejected datagram.
C29_RejectedSendHasNoEffect ==
    [][(/\ last_call' = "send_if_possible"
        /\ send_returned' = Some(FALSE))
       => UNCHANGED <<emitter_encoder, current_pause_cycles, pwm_duty,
                      pwm_enabled, max_pause_cycles, emitter_order,
                      emitter_panicked, orig, emitted>>]_vars

\* a send_if_possible call has just been rejected by an emitter that has
\* transmitted before
C29_Witness ==
    /\ last_call = "send_if_possible"
    /\ send_returned = Some(FALSE)
    /\ emitted_before
    /\ pwm_duty # None

\* C30: once no encoder has been attached for max_pause_cycles send_half_bit
\* calls, send_if_possible succeeds for as long as none is attached (the
\* pause counter is at least max_pause_cycles), and send_half_bit never
\* fails.
C30_IdleStaysSendable ==
    /\ ~emitter_panicked
    /\ (emitter_encoder = None /\ idle_ticks >= max_pause_cycles)
       => current_pause_cycles >= max_pause_cycles

(***************************************************************************)
(* Claims about the decoder on a long frame (specification SpecFrame).     *)
(***************************************************************************)
\* the sample of the call of this step: a panicking call leaves
\* previous_sample as it was, and it panics at an edge
StepSample == IF panicked' THEN ~previous_sample ELSE previous_sample'

\* C21: Decoder::next panics exactly when a record marker occurs while the
\* accumulator holds CAPACITY bits: the call then neither stores the bit nor
\* returns a frame, and no later call is made; no call panics while the
\* accumulator holds fewer bits.
C21_OverflowIsFatal ==
    [][/\ panicked' <=> (/\ len(datagram) = CAPACITY
                         /\ RecordMarker(StepSample))
       /\ panicked' => /\ datagram' = datagram
                       /\ return_value' = None
                       /\ returned' = << >>
       /\ ~panicked]_vars

\* the 128th record marker of a frame has occurred
C21_Witness ==
    /\ panicked
    /\ len(datagram) = CAPACITY
    /\ Len(appended) = CAPACITY

\* C22: in a frame returned by a BigEndian decoder the first received bit is
\* at index len-1 and the last one at index 0; in a frame returned by a
\* LittleEndian decoder the first received bit is at index 0 and the last one
\* at index len-1 (the i-th received bit is at index len-i, or i-1).
C22_DecodedBitOrder ==
    [][return_value' # None =>
        LET frame == return_value'[1]
            n == Len(appended)
        IN /\ len(frame) = n
           /\ n >= 1
           /\ \A i \in 1..n :
                index(frame, IF bit_order = "BigEndian" THEN n - i ELSE i - 1)
                  = (IF appended[i].bit THEN 1 ELSE 0)]_vars

\* a frame whose first and last received bits differ has been returned
C22_Witness ==
    /\ return_value # None
    /\ len(return_value[1]) >= MaxFree
    /\ index(return_value[1], 0) # index(return_value[1], len(return_value[1]) - 1)

(***************************************************************************)
(* Claims about the packed word of a Datagram (specification SpecDatagram) *)
(***************************************************************************)
\* C31: after any sequence of add_bit calls with either bit order, refused
\* calls on a full datagram included, the length is at most CAPACITY and no
\* bit of the buffer at a position at or above the length is set.
C31_DatagramInvariant ==
    /\ len(sut) <= CAPACITY
    /\ \A i \in sut.buffer : i < len(sut)

\* add_bit has been refused on a full datagram which was filled in both bit
\* orders and has its highest bit set
C31_Witness ==
    /\ bit_repr = None
    /\ result.op = "add_bit"
    /\ ~result.ok
    /\ len(sut) = CAPACITY
    /\ ~SameOrder("BigEndian")
    /\ ~SameOrder("LittleEndian")
    /\ (CAPACITY - 1) \in sut.buffer


\* the packed word n as the set of the positions of its set bits
RECURSIVE Word(_)
Word(n) ==
    IF n = 0 THEN {}
    ELSE (IF n % 2 = 1 THEN {0} ELSE {}) \cup {i + 1 : i \in Word(n \div 2)}

\* the first k of `bits`, each handed to add_bit with the order o
Appends(bits, o, k) == [i \in 1..k |-> [bit |-> bits[i] = 1, order |-> o]]

\* the bits the unit tests append big endian and little endian
BigEndianTestBits == <<0, 1, 0, 1>>
LittleEndianTestBits == <<1, 0, 1, 0>>

\* the datagram with the given fields
DatagramOf(length, word) == [length_in_bit |-> length, buffer |-> Word(word)]

FreshState ==
    /\ datagram = Datagram_default
    /\ previous_sample = IdleLevel
    /\ edge_distance = NO_EDGE_EXIT_LIMIT
    /\ recording_distance = NO_EDGE_EXIT_LIMIT
    /\ ~receiving_started
    /\ ~record_marker_reached
    /\ ~panicked

\* C33: right after a call in which Decoder::next returns a frame all fields
\* of the decoder are those of a freshly constructed decoder of the same
\* configuration, and the call after it returns no frame.
C33_ResetAfterFrame ==
    [][/\ return_value' # None => FreshState'
       /\ return_value # None => return_value' = None
       /\ UNCHANGED <<activity_level, sync_on_turning_edge, bit_order>>]_vars

\* a frame of several bits has just been returned
C33_Witness ==
    /\ return_value # None
    /\ len(return_value[1]) >= 2
    /\ FreshState


(***************************************************************************)
(* The round trip on an inverting line (specification SpecRoundTrip).      *)
(***************************************************************************)
\* the set-up of the polarity-aware round trip: the line is low while the
\* emitter is on and idles high, the decoder takes low as the activity level
\* and has the bit order of the encoder, and it syncs on the first edge when
\* the first transmitted bit is 1 and on the second edge when it is 0
PolarityAware ==
    /\ inverted
    /\ activity_level = "Low"
    /\ tx_order = bit_order
    /\ len(orig) >= 1
    /\ (sync_on_turning_edge = "First") <=> SourceBit(1)

=============================================================================
